---- MODULE Spec2Model ----
(***************************************************************************)
(* Corner-frequency pickers of gmprocess (gmprocess/corner_frequencies.py) *)
(* as a state machine: constant(st), snr(st, ...) and fft_smooth().        *)
(*                                                                         *)
(* A stream is a list of references to trace objects; the trace objects    *)
(* live in a heap (traces) so that a trace removed from the stream still   *)
(* exists and can be inspected.  Frequencies are in Hz, amplitudes are     *)
(* small integers; the quotient of two amplitudes is kept as an IEEE-754   *)
(* class (nan, +inf, -inf or a finite fraction), because that is what the  *)
(* NumPy division of the source produces.                                  *)
(***************************************************************************)
EXTENDS Integers, Sequences, FiniteSets, TLC

\* ------------------------------------------------------------------ bounds
\* Total number of samples of all traces of the input stream.
MaxSamples == 5

\* ---------------------------------------------------------------- inputs
\* trace.stats.sampling_rate of the traces (Hz); a power of two, so that the
\* rfftfreq grid k * rate / nfft is an integer for every nfft of the model.
SamplingRates == {16}
\* Spectral amplitude levels a signal window / a noise window can produce.
SignalAmps == {0, 4}
NoiseAmps == {0, 1}
\* Arguments of snr().
Thresholds == {3}
MaxLowFreqs == {0, 8}
MinHighFreqs == {0, 4}
\* The default of the signature and another value.
Bandwidths == {20, 40}
\* CONFIG['corner_frequencies']['constant'] values.
ConfigHighpass == {1, 2}
ConfigLowpass == {20}

\* ------------------------------------------------------------- helpers
Max(a, b) == IF a >= b THEN a ELSE b

RECURSIVE Pow2(_)
Pow2(k) == IF k = 0 THEN 1 ELSE 2 * Pow2(k - 1)

Range(s) == {s[i] : i \in DOMAIN s}

\* Variant: the last element is deleted (list.pop()).
ListRemoveLast(s, x) == SubSeq(s, 1, Len(s) - 1)

\* list.remove(x): delete the first element equal to x.
RECURSIVE ListRemove(_, _)
ListRemove(s, x) ==
    IF s = <<>> THEN <<>>
    ELSE IF Head(s) = x THEN Tail(s)
    ELSE <<Head(s)>> \o ListRemove(Tail(s), x)

\* gmprocess.utils._update_params(trace, process_type, parameters):
\* trace.stats['processing_parameters'][process_type] = parameters.
_update_params(trace, process_type, parameters) ==
    [trace EXCEPT !.processing_parameters =
        (process_type :> parameters) @@ @]

HasParam(trace, key) == key \in DOMAIN trace.processing_parameters

\* ------------------------------------------------ library operations
\* Variant: the logarithm of 0 does not raise.
LogOfZeroAccepted(i) == i < 0

\* math.log(i) raises ValueError (math domain error) for i <= 0; this is
\* the first statement of obspy.signal.util.next_pow_2.
LogDomainError(i) == i <= 0

\* Exact ceil(log2(i)) for i >= 1 (0 for i <= 1).
RECURSIVE ExactCeilLog2(_)
ExactCeilLog2(i) == IF i <= 1 THEN 0 ELSE 1 + ExactCeilLog2((i + 1) \div 2)

\* Arguments i < 2^31 for which the double-precision quotient
\* M.log(i) / M.log(2) is larger than the exact log2(i) although i is a
\* power of two: log(2^29)/log(2) evaluates to 29.000000000000004.
QuotientRoundsUp == {536870912}

\* M.ceil(M.log(i) / M.log(2)) as evaluated in double precision.
CeilLogQuotient(i) ==
    ExactCeilLog2(i) + (IF i \in QuotientRoundsUp THEN 1 ELSE 0)

\* obspy.signal.util.next_pow_2(i) == int(M.pow(2, M.ceil(M.log(i) / M.log(2))))
\* (only evaluated when LogDomainError(i) is false).
next_pow_2(i) == Pow2(CeilLogQuotient(i))

\* tr.copy().trim(endtime=split_time): number of samples left.  The split
\* time is the offset of the nearest sample from the first sample (sample
\* units); a split before the first sample leaves no data, a split at or
\* after the last sample leaves the trace untouched.
NoiseWindowNpts(npts, split) ==
    IF split < 0 THEN 0
    ELSE IF split >= npts - 1 THEN npts
    ELSE split + 1

\* tr.copy().trim(starttime=split_time): number of samples left.
SignalWindowNpts(npts, split) ==
    IF split > npts - 1 THEN 0
    ELSE IF split <= 0 THEN npts
    ELSE npts - split

\* np.fft.rfftfreq(n, 1 / sampling_rate): n // 2 + 1 frequencies
\* k * sampling_rate / n, k = 0 .. n // 2.
rfftfreq(n, sampling_rate) ==
    [k \in 1..((n \div 2) + 1) |-> ((k - 1) * sampling_rate) \div n]

\* max(freqs_signal)
RECURSIVE SeqMax(_)
SeqMax(s) == IF Len(s) = 1 THEN s[1] ELSE Max(Head(s), SeqMax(Tail(s)))

\* a / b for NumPy float64 scalars, b >= 0: division by zero gives
\* inf, -inf or nan (with a RuntimeWarning), never an exception.
Divide(a, b) ==
    IF b # 0 THEN [kind |-> "fin", num |-> a, den |-> b]
    ELSE IF a > 0 THEN [kind |-> "inf", num |-> 1, den |-> 0]
    ELSE IF a < 0 THEN [kind |-> "-inf", num |-> -1, den |-> 0]
    ELSE [kind |-> "nan", num |-> 0, den |-> 0]

\* Variant: the comparison turned around (q <= t).
LessEqual(q, t) ==
    CASE q.kind = "fin" -> q.num <= t * q.den
      [] q.kind = "-inf" -> TRUE
      [] OTHER -> FALSE

\* q >= t for a float64 q and a finite t (den > 0 for a finite q).
GreaterEqual(q, t) ==
    CASE q.kind = "fin" -> q.num >= t * q.den
      [] q.kind = "inf" -> TRUE
      [] OTHER -> FALSE

\* q < t for a float64 q and a finite t.
LessThan(q, t) ==
    CASE q.kind = "fin" -> q.num < t * q.den
      [] q.kind = "-inf" -> TRUE
      [] OTHER -> FALSE

\* ------------------------------------------------------ input streams
\* A trace: its sample count, sampling rate and processing parameters; the
\* split time is stored by the upstream signal detector.
NewTrace(npts, split, rate) ==
    [npts |-> npts, sampling_rate |-> rate,
     processing_parameters |->
        ("signal_split" :> [split_time |-> split])]

TraceShapes(budget) ==
    {NewTrace(n, s, r) : n \in 1..budget, s \in -1..budget,
                         r \in SamplingRates}

RECURSIVE Streams(_)
Streams(budget) ==
    {<<>>} \cup
    UNION {{<<t>> \o rest : rest \in Streams(budget - t.npts)} :
           t \in {x \in TraceShapes(budget) :
                    x.processing_parameters["signal_split"].split_time
                        <= x.npts}}

\* --------------------------------------------------------------- state
VARIABLES
    traces,             \* heap: trace id -> trace object
    st,                 \* the stream: list of trace ids (st.traces)
    input,              \* st as it was when the picker was called
    pc,                 \* position in the running picker
    call,               \* the picker that was called, or "none"
    error,              \* exception that left the picker, or "none"
    log,                \* logging.info entries: ids of the traces named
    cf_config,          \* CONFIG['corner_frequencies']['constant']
    threshold, max_low_freq, min_high_freq,     \* arguments of snr()
    bandwidth,
    it,                 \* iterator of the for loop over the stream
    tr,                 \* loop variable: id of the current trace
    visited,            \* ids bound to tr so far, in order
    noise, signal,      \* the two trimmed, tapered windows
    nfft,
    sig_spec_smooth, noise_spec_smooth, freqs_signal, freqs_noise,
    smoothing,          \* bandwidths given to konno_ohmachi_smoothing for tr
    lows, highs, have_low, idx,
    found_valid, low_corner, high_corner

scan_vars == <<lows, highs, have_low, idx>>
spec_vars == <<sig_spec_smooth, noise_spec_smooth, freqs_signal, freqs_noise,
               smoothing>>
pick_vars == <<found_valid, low_corner, high_corner>>
arg_vars == <<call, cf_config, threshold, max_low_freq, min_high_freq,
              bandwidth>>
win_vars == <<noise, signal, nfft>>

vars == <<traces, st, input, pc, error, log, arg_vars, it, tr, visited,
          win_vars, spec_vars, scan_vars, pick_vars>>

\* A name that is not bound yet.
Unbound == -1
NoWindow == [npts |-> Unbound, sampling_rate |-> Unbound, amps |-> {}]

InitWith(stream) ==
    /\ traces = [i \in 1..Len(stream) |-> stream[i]]
    /\ st = [i \in 1..Len(stream) |-> i]
    /\ input = [i \in 1..Len(stream) |-> i]
    /\ pc = "idle"
    /\ call = "none"
    /\ error = "none"
    /\ log = <<>>
    /\ cf_config = [highpass |-> Unbound, lowpass |-> Unbound]
    /\ threshold = Unbound /\ max_low_freq = Unbound
    /\ min_high_freq = Unbound /\ bandwidth = Unbound
    /\ it = [items |-> <<>>, pos |-> 1]
    /\ tr = Unbound
    /\ visited = <<>>
    /\ noise = NoWindow /\ signal = NoWindow /\ nfft = Unbound
    /\ sig_spec_smooth = <<>> /\ noise_spec_smooth = <<>>
    /\ freqs_signal = <<>> /\ freqs_noise = <<>> /\ smoothing = <<>>
    /\ lows = <<>> /\ highs = <<>> /\ have_low = FALSE /\ idx = Unbound
    /\ found_valid = FALSE /\ low_corner = Unbound /\ high_corner = Unbound

Init == \E stream \in Streams(MaxSamples) : InitWith(stream)

\* ------------------------------------------------------------ iteration
\* Variant: the loop walks the live list (a plain list iterator).
StreamIterLive(copy, live) == live

\* Stream.__iter__ returns list(self.traces).__iter__(): the loop walks a
\* copy of the list made when the loop starts, not the live list.
StreamIterItems(copy, live) == copy

\* for tr in st: the next item, if any.
HasNext == it.pos <= Len(StreamIterItems(it.items, st))
NextItem == StreamIterItems(it.items, st)[it.pos]

\* ------------------------------------------------------------ constant()
\* Lines 31-32: read the configuration, start the loop.
CallConstant ==
    /\ pc = "idle"
    /\ \E hp \in ConfigHighpass, lp \in ConfigLowpass :
          cf_config' = [highpass |-> hp, lowpass |-> lp]
    /\ it' = [items |-> st, pos |-> 1]
    /\ pc' = "constant_loop"
    /\ call' = "constant"
    /\ UNCHANGED <<traces, st, input, error, log, threshold, max_low_freq,
                   min_high_freq, bandwidth, tr, visited, win_vars,
                   spec_vars, scan_vars, pick_vars>>

\* Variant: the two configured values exchanged.
ConstantCornersSwapped(config) ==
    [type |-> "constant", highpass |-> config.lowpass,
     lowpass |-> config.highpass]

\* The parameters constant() attaches (lines 35-39).
ConstantCorners(config) ==
    [type |-> "constant", highpass |-> config.highpass,
     lowpass |-> config.lowpass]

\* Lines 32-40: one iteration of the loop.
ConstantStep ==
    /\ pc = "constant_loop"
    /\ HasNext
    /\ tr' = NextItem
    /\ visited' = Append(visited, NextItem)
    /\ it' = [it EXCEPT !.pos = @ + 1]
    /\ traces' = [traces EXCEPT ![NextItem] =
            _update_params(@, "corner_frequencies",
                           ConstantCorners(cf_config))]
    /\ UNCHANGED <<st, input, pc, error, log, arg_vars, win_vars, spec_vars,
                   scan_vars, pick_vars>>

\* Line 41: return st.
ConstantReturn ==
    /\ pc = "constant_loop"
    /\ ~HasNext
    /\ pc' = "returned"
    /\ UNCHANGED <<traces, st, input, error, log, arg_vars, it, tr, visited,
                   win_vars, spec_vars, scan_vars, pick_vars>>

\* ------------------------------------------------------------ fft_smooth
\* fft_smooth(trace, nfft): the smoothed amplitude spectrum of the window,
\* rfft of length nfft, and its frequency grid.  The amplitudes depend on
\* the samples of the window: every spectrum over the window's amplitude
\* levels is a possible result.  The result carries the bandwidth the
\* spectrum was smoothed with.
\* Line 176: the third argument of konno_ohmachi_smoothing.
SmoothingBandwidth == 20

\* Variant: the spectrum smoothed with the bandwidth argument of snr().
fft_smooth_with_argument(trace, n) ==
    {[spec_smooth |-> spec, freqs |-> rfftfreq(n, trace.sampling_rate),
      bandwidth |-> bandwidth] :
        spec \in [1..((n \div 2) + 1) -> trace.amps]}

fft_smooth(trace, n) ==
    {[spec_smooth |-> spec, freqs |-> rfftfreq(n, trace.sampling_rate),
      bandwidth |-> SmoothingBandwidth] :
        spec \in [1..((n \div 2) + 1) -> trace.amps]}

\* Line 81: nfft = max(next_pow_2(signal.stats.npts),
\*                     next_pow_2(noise.stats.npts))
FftSize(signal_npts, noise_npts) ==
    Max(next_pow_2(signal_npts), next_pow_2(noise_npts))

\* Variant: the subtraction left out, the signal curve kept as transformed.
RemoveNoiseNone(sig, noi) == sig

\* Line 89: sig_spec_smooth -= noise_spec_smooth (element-wise, in place).
RemoveNoise(sig, noi) == [k \in DOMAIN sig |-> sig[k] - noi[k]]

\* ------------------------------------------------------------ the scan
\* Variant: have_low is not cleared when a high is recorded.
ScanBinNoFlip(lo, hi, have, q, freq, thr) ==
    IF have = FALSE
    THEN IF GreaterEqual(q, thr)
         THEN [lows |-> Append(lo, freq), highs |-> hi, have_low |-> TRUE]
         ELSE [lows |-> lo, highs |-> hi, have_low |-> have]
    ELSE IF LessThan(q, thr)
         THEN [lows |-> lo, highs |-> Append(hi, freq), have_low |-> have]
         ELSE [lows |-> lo, highs |-> hi, have_low |-> have]

\* Lines 96-108: the body of the frequency loop at one bin; q is
\* sig_spec_smooth[idx] / noise_spec_smooth[idx].
ScanBin(lo, hi, have, q, freq, thr) ==
    IF have = FALSE
    THEN IF GreaterEqual(q, thr)
         THEN [lows |-> Append(lo, freq), highs |-> hi, have_low |-> TRUE]
         ELSE [lows |-> lo, highs |-> hi, have_low |-> have]
    ELSE IF LessThan(q, thr)
         THEN [lows |-> lo, highs |-> Append(hi, freq), have_low |-> FALSE]
         ELSE [lows |-> lo, highs |-> hi, have_low |-> have]

\* Variant: a closing high appended whether or not a band is open.
CloseBandAlways(lo, hi, freqs) == Append(hi, SeqMax(freqs))

\* Variant: the open band closed with its own low, lows[-1].
CloseBandWithLastLow(lo, hi, freqs) ==
    IF Len(lo) > Len(hi) THEN Append(hi, lo[Len(lo)]) ELSE hi

\* Variant: the open band closed with the minimum frequency.
CloseBandWithMin(lo, hi, freqs) ==
    IF Len(lo) > Len(hi) THEN Append(hi, freqs[1]) ELSE hi

\* Lines 117-118 (and 129-130): close an open band with the maximum
\* frequency.
CloseBand(lo, hi, freqs) ==
    IF Len(lo) > Len(hi) THEN Append(hi, SeqMax(freqs)) ELSE hi

\* Variant: the two bounds joined by "or" instead of "and".
RECURSIVE SelectFromEither(_, _, _, _, _, _)
SelectFromEither(i, lo, hi, maxlow, minhigh, sel) ==
    IF i > Len(lo) THEN sel
    ELSE SelectFromEither(i + 1, lo, hi, maxlow, minhigh,
            IF lo[i] <= maxlow \/ hi[i] > minhigh
            THEN [found_valid |-> TRUE, low_corner |-> lo[i],
                  high_corner |-> hi[i]]
            ELSE sel)

\* Variant: highs[idx] >= min_high_freq instead of >.
RECURSIVE SelectFromLoose(_, _, _, _, _, _)
SelectFromLoose(i, lo, hi, maxlow, minhigh, sel) ==
    IF i > Len(lo) THEN sel
    ELSE SelectFromLoose(i + 1, lo, hi, maxlow, minhigh,
            IF lo[i] <= maxlow /\ hi[i] >= minhigh
            THEN [found_valid |-> TRUE, low_corner |-> lo[i],
                  high_corner |-> hi[i]]
            ELSE sel)

\* Lines 122-126 (and 134-138): the loop over the pairs from index i on;
\* sel is (found_valid, low_corner, high_corner) so far.
RECURSIVE SelectFrom(_, _, _, _, _, _)
SelectFrom(i, lo, hi, maxlow, minhigh, sel) ==
    IF i > Len(lo) THEN sel
    ELSE SelectFrom(i + 1, lo, hi, maxlow, minhigh,
            IF lo[i] <= maxlow /\ hi[i] > minhigh
            THEN [found_valid |-> TRUE, low_corner |-> lo[i],
                  high_corner |-> hi[i]]
            ELSE sel)

\* Variant: the loop stops at the first valid pair.
SelectPairFirst(lo, hi, maxlow, minhigh, low_before, high_before) ==
    LET V == {i \in 1..Len(lo) : lo[i] <= maxlow /\ hi[i] > minhigh}
    IN IF V = {}
       THEN [found_valid |-> FALSE, low_corner |-> low_before,
             high_corner |-> high_before]
       ELSE LET f == CHOOSE i \in V : \A j \in V : i <= j
            IN [found_valid |-> TRUE, low_corner |-> lo[f],
                high_corner |-> hi[f]]

\* Variant: found_valid is not reset before the loop and keeps the value
\* the previous trace left.
SelectPairNoReset(lo, hi, maxlow, minhigh, low_before, high_before) ==
    SelectFrom(1, lo, hi, maxlow, minhigh,
               [found_valid |-> found_valid, low_corner |-> low_before,
                high_corner |-> high_before])

\* Lines 121-126 (and 133-138): found_valid = False, then the loop.
SelectPair(lo, hi, maxlow, minhigh, low_before, high_before) ==
    SelectFrom(1, lo, hi, maxlow, minhigh,
               [found_valid |-> FALSE, low_corner |-> low_before,
                high_corner |-> high_before])

\* The parameters snr() attaches (lines 143-147).
SnrCorners(low, high) ==
    [type |-> "snr", highpass |-> low, lowpass |-> high]

\* ------------------------------------------------------------ snr()
\* Lines 44-45, 64: bind the arguments, start the loop.
CallSnr ==
    /\ pc = "idle"
    /\ \E t \in Thresholds, ml \in MaxLowFreqs, mh \in MinHighFreqs,
          bw \in Bandwidths :
          /\ threshold' = t
          /\ max_low_freq' = ml
          /\ min_high_freq' = mh
          /\ bandwidth' = bw
    /\ it' = [items |-> st, pos |-> 1]
    /\ pc' = "snr_loop"
    /\ call' = "snr"
    /\ UNCHANGED <<traces, st, input, error, log, cf_config, tr, visited,
                   win_vars, spec_vars, scan_vars, pick_vars>>

\* Lines 64-78: bind the next trace to tr, split it into the noise and the
\* signal window, taper both.
SnrNext ==
    /\ pc = "snr_loop"
    /\ HasNext
    /\ tr' = NextItem
    /\ visited' = Append(visited, NextItem)
    /\ it' = [it EXCEPT !.pos = @ + 1]
    /\ LET t == traces[NextItem]
           split_time == t.processing_parameters["signal_split"].split_time
       IN /\ noise' = [npts |-> NoiseWindowNpts(t.npts, split_time),
                       sampling_rate |-> t.sampling_rate,
                       amps |-> NoiseAmps]
          /\ signal' = [npts |-> SignalWindowNpts(t.npts, split_time),
                        sampling_rate |-> t.sampling_rate,
                        amps |-> SignalAmps]
    /\ pc' = "nfft"
    /\ UNCHANGED <<traces, st, input, error, log, arg_vars, nfft, spec_vars,
                   scan_vars, pick_vars>>

\* Line 152: the loop is exhausted, return st.
SnrReturn ==
    /\ pc = "snr_loop"
    /\ ~HasNext
    /\ pc' = "returned"
    /\ UNCHANGED <<traces, st, input, error, log, arg_vars, it, tr, visited,
                   win_vars, spec_vars, scan_vars, pick_vars>>

\* Line 81: the transform size; next_pow_2 of an empty window raises.
ComputeNfft ==
    /\ pc = "nfft"
    /\ IF LogDomainError(signal.npts) \/ LogDomainError(noise.npts)
       THEN /\ error' = "ValueError"
            /\ pc' = "raised"
            /\ UNCHANGED nfft
       ELSE /\ nfft' = FftSize(signal.npts, noise.npts)
            /\ pc' = "fft"
            /\ UNCHANGED error
    /\ UNCHANGED <<traces, st, input, log, arg_vars, it, tr, visited,
                   noise, signal, spec_vars, scan_vars, pick_vars>>

\* Lines 85-94: both spectra, the noise removal, and the empty candidate
\* lists.
Transform ==
    /\ pc = "fft"
    /\ \E s \in fft_smooth(signal, nfft), n \in fft_smooth(noise, nfft) :
          /\ sig_spec_smooth' = RemoveNoise(s.spec_smooth, n.spec_smooth)
          /\ noise_spec_smooth' = n.spec_smooth
          /\ freqs_signal' = s.freqs
          /\ freqs_noise' = n.freqs
          /\ smoothing' = <<s.bandwidth, n.bandwidth>>
    /\ lows' = <<>>
    /\ highs' = <<>>
    /\ have_low' = FALSE
    /\ idx' = 1
    /\ pc' = "scan"
    /\ UNCHANGED <<traces, st, input, error, log, arg_vars, it, tr, visited,
                   win_vars, pick_vars>>

\* Lines 95-108: one iteration of the frequency loop.
ScanStep ==
    /\ pc = "scan"
    /\ idx <= Len(freqs_signal)
    /\ LET r == ScanBin(lows, highs, have_low,
                        Divide(sig_spec_smooth[idx], noise_spec_smooth[idx]),
                        freqs_signal[idx], threshold)
       IN /\ lows' = r.lows
          /\ highs' = r.highs
          /\ have_low' = r.have_low
    /\ idx' = idx + 1
    /\ UNCHANGED <<traces, st, input, pc, error, log, arg_vars, it, tr,
                   visited, win_vars, spec_vars, pick_vars>>

\* Lines 111-114: no candidate low at all: log, remove, continue.
NoCorners ==
    /\ pc = "scan"
    /\ idx > Len(freqs_signal)
    /\ lows = <<>>
    /\ log' = Append(log, tr)
    /\ st' = ListRemove(st, tr)
    /\ pc' = "snr_loop"
    /\ UNCHANGED <<traces, input, error, arg_vars, it, tr, visited,
                   win_vars, spec_vars, scan_vars, pick_vars>>

\* Lines 116-126: close the open band, look for a valid pair.
CloseAndSelect ==
    /\ pc = "scan"
    /\ idx > Len(freqs_signal)
    /\ lows # <<>>
    /\ LET hi == CloseBand(lows, highs, freqs_signal)
           sel == SelectPair(lows, hi, max_low_freq, min_high_freq,
                             low_corner, high_corner)
       IN /\ highs' = hi
          /\ found_valid' = sel.found_valid
          /\ low_corner' = sel.low_corner
          /\ high_corner' = sel.high_corner
    /\ pc' = "again"
    /\ UNCHANGED <<traces, st, input, error, log, arg_vars, it, tr, visited,
                   win_vars, spec_vars, lows, have_low, idx>>

\* Lines 128-138: the same block a second time.
CloseAndSelectAgain ==
    /\ pc = "again"
    /\ LET hi == CloseBand(lows, highs, freqs_signal)
           sel == SelectPair(lows, hi, max_low_freq, min_high_freq,
                             low_corner, high_corner)
       IN /\ highs' = hi
          /\ found_valid' = sel.found_valid
          /\ low_corner' = sel.low_corner
          /\ high_corner' = sel.high_corner
    /\ pc' = "decide"
    /\ UNCHANGED <<traces, st, input, error, log, arg_vars, it, tr, visited,
                   win_vars, spec_vars, lows, have_low, idx>>

\* Lines 140-148: a valid pair was found: attach it.
Attach ==
    /\ pc = "decide"
    /\ found_valid
    /\ traces' = [traces EXCEPT ![tr] =
            _update_params(@, "corner_frequencies",
                           SnrCorners(low_corner, high_corner))]
    /\ pc' = "snr_loop"
    /\ UNCHANGED <<st, input, error, log, arg_vars, it, tr, visited,
                   win_vars, spec_vars, scan_vars, pick_vars>>

\* Lines 149-151: no valid pair: log, remove.
Reject ==
    /\ pc = "decide"
    /\ ~found_valid
    /\ log' = Append(log, tr)
    /\ st' = ListRemove(st, tr)
    /\ pc' = "snr_loop"
    /\ UNCHANGED <<traces, input, error, arg_vars, it, tr, visited,
                   win_vars, spec_vars, scan_vars, pick_vars>>

Next ==
    \/ CallConstant \/ ConstantStep \/ ConstantReturn
    \/ CallSnr \/ SnrNext \/ SnrReturn \/ ComputeNfft \/ Transform
    \/ ScanStep \/ NoCorners \/ CloseAndSelect \/ CloseAndSelectAgain
    \/ Attach \/ Reject

Spec == Init /\ [][Next]_vars

\* ------------------------------------------- the transform size in isolation
\* Sample counts around the powers of two, for single-trace streams.
ProbeNpts == {1, 2, 3, 4, 5, 8, 9, 536870911, 536870912, 536870913}

InitProbe ==
    \E n \in ProbeNpts, r \in SamplingRates :
        \E s \in {-1, 0, 1, n - 2, n - 1, n} \cap (-1..n) :
            InitWith(<<NewTrace(n, s, r)>>)

\* snr() up to and including line 81.
NextNfft == CallSnr \/ SnrNext \/ ComputeNfft

SpecNfft == InitProbe /\ [][NextNfft]_vars

\* ================================================================ claims
CornerFrequencies(i) == traces[i].processing_parameters["corner_frequencies"]
HasCorners(i) == HasParam(traces[i], "corner_frequencies")
SnrReturned == call = "snr" /\ pc = "returned"
ConstantReturned == call = "constant" /\ pc = "returned"

\* C1: after snr() returns, every trace still in the stream carries
\* corner_frequencies of type 'snr', every trace of the input stream that
\* carries none has been removed, and the loop bound every trace of the
\* input stream to tr exactly once, in order.
C1_SnrAnnotatesOrRemoves ==
    SnrReturned =>
        /\ \A i \in Range(st) :
              HasCorners(i) /\ CornerFrequencies(i).type = "snr"
        /\ \A i \in Range(input) : ~HasCorners(i) => i \notin Range(st)
        /\ Range(st) \subseteq Range(input)
        /\ visited = input

\* C1 witness: snr() returned after removing a trace that is directly
\* followed by a trace it kept, which is followed by another removed one.
C1_Witness ==
    /\ SnrReturned
    /\ \E k \in 1..(Len(input) - 2) :
          /\ input[k] \notin Range(st)
          /\ input[k + 1] \in Range(st)
          /\ input[k + 2] \notin Range(st)

\* C2: after constant() returns, every trace carries corner_frequencies =
\* {type 'constant', highpass, lowpass} with the configured values and the
\* stream is the input stream: nothing was removed.
C2_ConstantAnnotatesAll ==
    ConstantReturned =>
        /\ st = input
        /\ \A i \in Range(input) :
              /\ HasCorners(i)
              /\ CornerFrequencies(i) =
                    [type |-> "constant", highpass |-> cf_config.highpass,
                     lowpass |-> cf_config.lowpass]
        /\ log = <<>>

\* C2 witness: constant() returned on a stream of several traces.
C2_Witness == ConstantReturned /\ Len(input) >= 2

\* C2, the empty stream: constant() returns on it as well.
C2_WitnessEmpty == ConstantReturned /\ input = <<>>

\* ------------------------------------------------ the scan, declaratively
Bins == DOMAIN freqs_signal
Ratio(k) == Divide(sig_spec_smooth[k], noise_spec_smooth[k])
\* The ratio at bin k is >= threshold / is < threshold.
Qualifies(k) == GreaterEqual(Ratio(k), threshold)
Below(k) == LessThan(Ratio(k), threshold)

\* The walk is outside a band when it reaches bin k: no earlier bin
\* qualifies, or a bin below threshold follows the last earlier bin that
\* qualifies.
OutsideAt(k) ==
    LET G == {g \in 1..(k - 1) : Qualifies(g)}
    IN \/ G = {}
       \/ \E j \in 1..(k - 1) : Below(j) /\ \A g \in G : g < j

\* The frequency loop of the current trace has run to its end.
ScanEnded == pc = "scan" /\ idx > Len(freqs_signal)
\* The current trace went through the whole loop body: the spectra, lows
\* and highs are those of tr.
TraceDone == call = "snr" /\ pc \in {"snr_loop", "returned"} /\ tr # Unbound

\* The ascending sequence s holds exactly the frequencies of the bins in B.
HoldsExactly(s, B) ==
    /\ Len(s) = Cardinality(B)
    /\ Range(s) = {freqs_signal[k] : k \in B}
    /\ \A i \in 1..(Len(s) - 1) : s[i] < s[i + 1]

\* The qualifying bins are exactly the run a..b, and a bin follows it.
SingleRun(a, b) ==
    /\ a \in Bins /\ b \in Bins /\ a <= b /\ (b + 1) \in Bins
    /\ \A k \in Bins : Qualifies(k) <=> (a <= k /\ k <= b)

\* (low, high) is a valid pair for the arguments of the call.
ValidPair(low, high) == low <= max_low_freq /\ high > min_high_freq
ValidPairs == {i \in DOMAIN lows : ValidPair(lows[i], highs[i])}

C3_CrossingsOnly ==
    ScanEnded =>
        /\ HoldsExactly(lows, {k \in Bins : Qualifies(k) /\ OutsideAt(k)})
        /\ HoldsExactly(highs, {k \in Bins : Below(k) /\ ~OutsideAt(k)})

\* C4: an attached pair is the valid candidate pair with the highest
\* index; an earlier valid pair is never attached when a later one exists.
C4_LastValidPairWins ==
    (TraceDone /\ HasCorners(tr)) =>
        /\ ValidPairs # {}
        /\ \E i \in ValidPairs :
              /\ \A j \in ValidPairs : j <= i
              /\ CornerFrequencies(tr).highpass = lows[i]
              /\ CornerFrequencies(tr).lowpass = highs[i]

\* C4 witness: a trace was annotated although an earlier pair was valid
\* as well.
C4_Witness ==
    TraceDone /\ HasCorners(tr) /\ Cardinality(ValidPairs) >= 2

\* C5: if the ratio is below threshold at every bin, there is no
\* candidate low and the trace is removed without corner_frequencies.
C5_AllBelowIsRemoved ==
    (TraceDone /\ \A k \in Bins : Below(k)) =>
        /\ lows = <<>>
        /\ tr \notin Range(st)
        /\ ~HasCorners(tr)

\* C5 witness: a trace with several bins, all below threshold, was
\* processed.
C5_Witness ==
    TraceDone /\ Len(freqs_signal) >= 3 /\ \A k \in Bins : Below(k)

\* C6: if every bin qualifies, the loop leaves one low, the first grid
\* frequency, and no high; the band-closing rule then appends the maximum
\* grid frequency, giving exactly one pair.
C6_AllQualifyOnePair ==
    /\ (ScanEnded /\ \A k \in Bins : Qualifies(k)) =>
          lows = <<freqs_signal[1]>> /\ highs = <<>>
    /\ ((pc \in {"again", "decide"} \/ TraceDone)
           /\ \A k \in Bins : Qualifies(k)) =>
          /\ lows = <<freqs_signal[1]>>
          /\ highs = <<freqs_signal[Len(freqs_signal)]>>
          /\ \A k \in Bins : freqs_signal[k] <= highs[1]

\* C6 witness: the band of a trace whose bins all qualify was closed.
C6_Witness ==
    pc = "again" /\ Len(freqs_signal) >= 3 /\ \A k \in Bins : Qualifies(k)

\* Number of log entries naming trace i.
LogCount(i) == Cardinality({n \in DOMAIN log : log[n] = i})
\* The input stream without the traces the log names, in order.
RECURSIVE Unlogged(_)
Unlogged(s) ==
    IF s = <<>> THEN <<>>
    ELSE IF LogCount(Head(s)) > 0 THEN Unlogged(Tail(s))
    ELSE <<Head(s)>> \o Unlogged(Tail(s))

\* C7: a trace with candidate pairs none of which is valid is removed,
\* gets no corner_frequencies and is logged exactly once; the stream is
\* the input stream without exactly the logged traces, and a kept trace is
\* never logged.
C7_NoValidPairIsRemoved ==
    call = "snr" =>
        /\ (TraceDone /\ lows # <<>> /\ ValidPairs = {}) =>
              /\ tr \notin Range(st)
              /\ ~HasCorners(tr)
              /\ LogCount(tr) = 1
        /\ st = Unlogged(input)
        /\ Len(st) = Len(input) - Len(log)
        /\ \A i \in Range(st) : LogCount(i) = 0

\* C7 witness: a trace with candidate pairs but no valid one was
\* processed after an annotated trace and before another trace.
C7_Witness ==
    /\ TraceDone /\ lows # <<>> /\ ValidPairs = {}
    /\ Len(visited) = 2 /\ Len(input) >= 3
    /\ visited[1] \in Range(st)

\* C8: a bin whose noise amplitude is 0 always passes the threshold test:
\* once the walk has gone over such a bin it is inside a band.
C8_ZeroNoisePasses ==
    (pc = "scan" /\ idx > 1 /\ noise_spec_smooth[idx - 1] = 0) =>
        have_low = TRUE

RECURSIVE IsPow2(_)
IsPow2(n) == n = 1 \/ (n > 1 /\ n % 2 = 0 /\ IsPow2(n \div 2))
\* n is the smallest power of two >= m (m >= 1).
SmallestPow2AtLeast(n, m) == IsPow2(n) /\ n >= m /\ (n = 1 \/ n \div 2 < m)

\* C9: the transform size is the smallest power of two >= the larger of
\* the two windows' sample counts; both spectra and both grids have
\* nfft/2 + 1 entries and the two grids are equal.
C9_FftSizeAndGrid ==
    /\ pc = "fft" =>
          SmallestPow2AtLeast(nfft, Max(noise.npts, signal.npts))
    /\ pc = "scan" =>
          /\ Len(freqs_signal) = (nfft \div 2) + 1
          /\ Len(freqs_noise) = (nfft \div 2) + 1
          /\ freqs_noise = freqs_signal
          /\ Len(sig_spec_smooth) = Len(freqs_signal)
          /\ Len(noise_spec_smooth) = Len(freqs_noise)

\* The trace's split time leaves the noise or the signal window empty.
EmptyWindow(i) ==
    LET t == traces[i]
        s == t.processing_parameters["signal_split"].split_time
    IN NoiseWindowNpts(t.npts, s) <= 0 \/ SignalWindowNpts(t.npts, s) <= 0

\* C10: a trace with an empty window is never annotated, never removed
\* and never logged by snr(); snr() does not return when the stream holds
\* one, and once the loop has reached it and computed the transform size
\* the call has ended with an error at that trace.
C10_EmptyWindowRaises ==
    call = "snr" =>
        \A i \in Range(input) :
            EmptyWindow(i) =>
                /\ i \in Range(st)
                /\ ~HasCorners(i)
                /\ LogCount(i) = 0
                /\ pc # "returned"
                /\ (i \in Range(visited) /\ pc # "nfft") =>
                      pc = "raised" /\ error = "ValueError" /\ tr = i
                /\ pc = "raised" => error = "ValueError"

\* C10 witness: snr() raised at the third trace, after annotating one
\* trace and removing another.
C10_Witness ==
    /\ pc = "raised"
    /\ EmptyWindow(tr)
    /\ Len(visited) = 3
    /\ \E a, b \in Range(visited) : HasCorners(a) /\ b \notin Range(st)

\* s is an order-preserving subsequence of t.
RECURSIVE IsSubsequence(_, _)
IsSubsequence(s, t) ==
    IF s = <<>> THEN TRUE
    ELSE IF t = <<>> THEN FALSE
    ELSE IF Head(s) = Head(t) THEN IsSubsequence(Tail(s), Tail(t))
    ELSE IsSubsequence(s, Tail(t))

\* The loop body of snr() has run for trace i and found no candidate low
\* or no valid pair (for the current trace, read from its scan results).
RejectedNow == TraceDone /\ (lows = <<>> \/ ValidPairs = {})

\* C11: snr() and constant() never add a trace: the stream is always an
\* order-preserving subsequence of the input stream without duplicates;
\* constant() removes nothing; under snr() the current trace is missing
\* exactly when it was rejected, and every missing trace went through the
\* loop and carries no corner_frequencies.
C11_OnlyRejectedAreRemoved ==
    /\ IsSubsequence(st, input)
    /\ Cardinality(Range(st)) = Len(st)
    /\ call = "constant" => st = input
    /\ TraceDone => (tr \notin Range(st) <=> RejectedNow)
    /\ \A i \in Range(input) \ Range(st) :
          i \in Range(visited) /\ ~HasCorners(i)

\* C11 witness: snr() returned a stream that lost its first and its last
\* trace and kept one in between.
C11_Witness ==
    /\ SnrReturned
    /\ Len(input) >= 3 /\ Len(st) >= 1
    /\ input[1] \notin Range(st)
    /\ input[Len(input)] \notin Range(st)

\* ----------------------------------------- the scan as a function of its inputs
\* The walk over the bins k, k+1, ... as a function of the two curves, the
\* grid and the threshold alone.
RECURSIVE WalkBins(_, _, _, _, _, _, _, _)
WalkBins(k, sig, noi, freqs, thr, lo, hi, inside) ==
    IF k > Len(freqs) THEN [lo |-> lo, hi |-> hi, inside |-> inside]
    ELSE LET q == Divide(sig[k], noi[k])
         IN IF ~inside /\ GreaterEqual(q, thr)
            THEN WalkBins(k + 1, sig, noi, freqs, thr,
                          Append(lo, freqs[k]), hi, TRUE)
            ELSE IF inside /\ LessThan(q, thr)
            THEN WalkBins(k + 1, sig, noi, freqs, thr,
                          lo, Append(hi, freqs[k]), FALSE)
            ELSE WalkBins(k + 1, sig, noi, freqs, thr, lo, hi, inside)

NoPair == [kept |-> FALSE, highpass |-> Unbound, lowpass |-> Unbound]

\* The pair to attach, or NoPair, as a function of (de-noised signal
\* curve, noise curve, grid, threshold, max_low_freq, min_high_freq).
ScanOutcome(sig, noi, freqs, thr, maxlow, minhigh) ==
    LET w == WalkBins(1, sig, noi, freqs, thr, <<>>, <<>>, FALSE)
        hi == IF w.inside THEN Append(w.hi, freqs[Len(freqs)]) ELSE w.hi
        V == {i \in DOMAIN w.lo : w.lo[i] <= maxlow /\ hi[i] > minhigh}
    IN IF V = {} THEN NoPair
       ELSE LET m == CHOOSE i \in V : \A j \in V : j <= i
            IN [kept |-> TRUE, highpass |-> w.lo[m], lowpass |-> hi[m]]

\* What snr() did with trace i: the pair it attached, or NoPair when the
\* trace was removed.
Outcome(i) ==
    IF i \in Range(st) /\ HasCorners(i)
    THEN [kept |-> TRUE, highpass |-> CornerFrequencies(i).highpass,
          lowpass |-> CornerFrequencies(i).lowpass]
    ELSE NoPair

\* C12: the outcome for a trace is a function of its two curves, the
\* threshold, max_low_freq and min_high_freq alone: whatever traces were
\* processed before it and whatever they left in the local names, the
\* trace gets the pair ScanOutcome gives, or is removed when it gives none.
C12_OutcomeIsFunctionOfInputs ==
    TraceDone =>
        /\ Outcome(tr) = ScanOutcome(sig_spec_smooth, noise_spec_smooth,
                                     freqs_signal, threshold, max_low_freq,
                                     min_high_freq)
        /\ tr \in Range(st) <=> HasCorners(tr)

\* C12 witness: a trace was rejected with candidate pairs while the
\* local names still held the valid pair of an earlier, annotated trace.
C12_Witness ==
    /\ TraceDone
    /\ Len(visited) >= 2
    /\ lows # <<>> /\ tr \notin Range(st)
    /\ low_corner # Unbound
    /\ \E i \in Range(st) : HasCorners(i)

\* C13: at every step of the frequency loop there is one more low than
\* highs when inside a band and as many when outside, and the candidates
\* strictly interleave, lows[k] < highs[k] < lows[k+1]; once the band is
\* closed the two lists have the same length.
C13_CandidatesInterleave ==
    /\ pc = "scan" =>
          /\ Len(lows) - Len(highs) = (IF have_low THEN 1 ELSE 0)
          /\ \A k \in DOMAIN highs : lows[k] < highs[k]
          /\ \A k \in DOMAIN highs :
                (k + 1) \in DOMAIN lows => highs[k] < lows[k + 1]
    /\ (pc \in {"again", "decide"} \/ TraceDone) =>
          /\ Len(lows) = Len(highs)
          /\ \A k \in DOMAIN lows : lows[k] <= highs[k]

\* C13 witness: the loop is inside its second band, the first one closed.
C13_Witness ==
    pc = "scan" /\ have_low /\ Len(lows) = 2 /\ Len(highs) = 1

\* C13, closing: a band left open by the loop was closed.
C13_WitnessClosed ==
    pc = "again" /\ have_low /\ Len(lows) = 2 /\ Len(highs) = 2

\* The frequency grid of trace i, from its two windows.
GridOf(i) ==
    LET t == traces[i]
        s == t.processing_parameters["signal_split"].split_time
    IN rfftfreq(FftSize(SignalWindowNpts(t.npts, s),
                        NoiseWindowNpts(t.npts, s)), t.sampling_rate)

\* C14: every pair snr() has attached satisfies highpass <= max_low_freq
\* and lowpass > min_high_freq, and both values are frequencies of the
\* trace's grid.
C14_AttachedPairIsValid ==
    call = "snr" =>
        \A i \in Range(input) :
            HasCorners(i) =>
                /\ CornerFrequencies(i).type = "snr"
                /\ CornerFrequencies(i).highpass <= max_low_freq
                /\ CornerFrequencies(i).lowpass > min_high_freq
                /\ CornerFrequencies(i).highpass \in Range(GridOf(i))
                /\ CornerFrequencies(i).lowpass \in Range(GridOf(i))

\* C14 witness: a trace was annotated although one of its candidate pairs
\* violates a bound.
C14_Witness ==
    /\ TraceDone /\ HasCorners(tr)
    /\ \E k \in DOMAIN lows : ~ValidPair(lows[k], highs[k])

\* C16: every attached pair has highpass <= lowpass; the two are equal
\* only when the pair is the last band, opened at the maximum grid
\* frequency and closed by the band-closing rule.
C16_HighpassBelowLowpass ==
    /\ call = "snr" =>
          \A i \in Range(input) :
              HasCorners(i) =>
                  /\ CornerFrequencies(i).highpass
                        <= CornerFrequencies(i).lowpass
                  /\ CornerFrequencies(i).highpass
                        = CornerFrequencies(i).lowpass =>
                        CornerFrequencies(i).highpass
                            = GridOf(i)[Len(GridOf(i))]
    /\ (TraceDone /\ HasCorners(tr)
          /\ CornerFrequencies(tr).highpass
                = CornerFrequencies(tr).lowpass) =>
          /\ have_low
          /\ lows[Len(lows)] = freqs_signal[Len(freqs_signal)]
          /\ CornerFrequencies(tr).highpass = lows[Len(lows)]
          /\ \A k \in 1..(Len(lows) - 1) : lows[k] < highs[k]

\* C16 witness: a pair with highpass = lowpass was attached to a trace
\* with several bins.
C16_Witness ==
    /\ TraceDone /\ HasCorners(tr)
    /\ Len(freqs_signal) >= 3
    /\ CornerFrequencies(tr).highpass = CornerFrequencies(tr).lowpass

\* The smoothed signal amplitude of bin k before the noise removal.
RawSignal(k) == sig_spec_smooth[k] + noise_spec_smooth[k]
\* (signal - noise) / noise >= threshold at bin k, with the original noise
\* amplitude as divisor; a positive value over 0 is +infinity, 0 over 0 has
\* no value.
PassesRaw(k) ==
    LET n == noise_spec_smooth[k]
        d == RawSignal(k) - n
    IN IF n > 0 THEN d >= threshold * n ELSE d > 0

\* C15: after the noise removal the noise curve is still the smoothed
\* noise spectrum and the signal curve is the smoothed signal spectrum
\* minus it; the lows are opened only at bins where
\* (signal - noise) / noise >= threshold, the highs recorded only at bins
\* where it is not, and the first such bin opens the first band.
C15_NoiseRemovalKeepsNoise ==
    (call = "snr" /\ pc = "scan") =>
        /\ \A k \in Bins :
              /\ noise_spec_smooth[k] \in noise.amps
              /\ RawSignal(k) \in signal.amps
        /\ \A k \in 1..(idx - 1) :
              /\ freqs_signal[k] \in Range(lows) => PassesRaw(k)
              /\ freqs_signal[k] \in Range(highs) => ~PassesRaw(k)
              /\ (PassesRaw(k) /\ \A j \in 1..(k - 1) : ~PassesRaw(j)) =>
                    (lows # <<>> /\ lows[1] = freqs_signal[k])

\* C15 witness: the walk ended with a band opened at a bin whose noise
\* amplitude is not 0, after a bin that did not qualify.
C15_Witness ==
    /\ ScanEnded
    /\ \E k \in Bins :
          /\ k > 1
          /\ noise_spec_smooth[k] > 0
          /\ noise_spec_smooth[1] > 0
          /\ lows # <<>> /\ lows[1] = freqs_signal[k]

\* C18: the second run of the close-and-select block (lines 128-138)
\* appends no closing high and leaves lows, highs, found_valid and the
\* selected pair as the first run (lines 116-126) left them.
C18_SecondBlockChangesNothing ==
    [][pc = "again" =>
          /\ pc' = "decide"
          /\ lows' = lows
          /\ highs' = highs
          /\ found_valid' = found_valid
          /\ low_corner' = low_corner
          /\ high_corner' = high_corner]_vars

\* C18 witness: both runs are over for a trace whose last band was closed
\* by the closing rule and whose pair was selected.
C18_Witness ==
    /\ pc = "decide"
    /\ have_low
    /\ found_valid
    /\ Len(highs) >= 2
    /\ highs[Len(highs)] = SeqMax(freqs_signal)

====
